---- MODULE Spec2Model ----
(***************************************************************************)
(* ChainQuiz (the contract wired to a separate VRFConsumer) together with  *)
(* the VRFConsumer it calls, the $QUIZ token it moves and the Chainlink    *)
(* Functions router that calls it back.  Token amounts are counted in      *)
(* whole $QUIZ (1 $QUIZ = 10^18 base units, "ether" in the source).        *)
(* Strings are sequences of one-character strings.                         *)
(***************************************************************************)
EXTENDS Integers, Sequences, FiniteSets, TLC

\* ------------------------------------------------------------------ bounds
MaxVrfRequests == 2        \* randomness requests (= sessions started) in a run
MaxFunctionsRequests == 2  \* Functions requests sent in a run
MaxTicks == 1              \* block-time steps in a run

\* --------------------------------------------------------------- constants
ENTRY_FEE == 10
REWARD_PER_QUESTION == 2
MAX_QUIZ_DURATION == 450
MAX_QUESTIONS == 10

Players == {"alice", "bob"}
NoPlayer == "0x0"
Contract == "ChainQuiz"

availableDomains ==
    << "DeFi", "Oracles", "Layer2", "Tokenomics", "ZeroKnowledge", "NFT",
       "CrossChain", "Governance", "DAOs", "SmartContracts", "WalletSecurity",
       "Stablecoins", "Chainlink", "CCIP", "VRF", "Automation", "DataFeeds" >>

VrfIds == 1..MaxVrfRequests
FnIds == 1..MaxFunctionsRequests

\* ------------------------------------------------------------ environment
\* What a caller may pass to startQuiz: five valid topics, four valid topics,
\* five topics one of which is not in the vocabulary.
DomainInputs ==
    { << "DeFi", "Oracles", "Layer2", "NFT", "VRF" >>,
      << "DeFi", "Oracles", "Layer2", "NFT" >>,
      << "DeFi", "Oracles", "Layer2", "NFT", "Memes" >> }

\* Random words the VRF coordinator may deliver.
RandomWords == {7}

\* Block-time steps: up to the deadline of a session started now, and past it.
TickSteps == {MAX_QUIZ_DURATION, MAX_QUIZ_DURATION + 1}

\* Token holdings a participant may start a run with, and what each has
\* approved the contract to pull.
InitialBalances == {ENTRY_FEE - 1, 2 * ENTRY_FEE}
InitialAllowances == {ENTRY_FEE - 1, 2 * ENTRY_FEE}

\* What the DON returns for the two inline JavaScript sources: the generate
\* source returns `${quizId}|${numQ}`, the verify source '1' or '0'; a failed
\* run returns an empty response (and an error, which the contract ignores).
GenerateResponses ==
    { << "a", "|", "3" >>, << "a", "|", "1" >>, << "b", "|", "1", "2" >>,
      << "a", "|", "0" >>, << >> }
VerifyResponses == { << "1" >>, << "0" >>, << >> }

\* ---------------------------------------------------------------- strings
Digits == << "0", "1", "2", "3", "4", "5", "6", "7", "8", "9" >>

IsDigit(c) == \E d \in 1..10 : Digits[d] = c

DigitValue(c) == (CHOOSE d \in 1..10 : Digits[d] = c) - 1

RECURSIVE U2S(_)
U2S(v) == IF v = 0 THEN << >> ELSE U2S(v \div 10) \o << Digits[(v % 10) + 1] >>

uint2str(v) == IF v = 0 THEN << "0" >> ELSE U2S(v)

RECURSIVE AtoiFrom(_, _, _)
AtoiFrom(b, i, result) ==
    IF i > Len(b) THEN result
    ELSE AtoiFrom(b, i + 1,
                  IF IsDigit(b[i]) THEN result * 10 + DigitValue(b[i]) ELSE result)

atoi(s) == AtoiFrom(s, 1, 0)

\* _slice(data, start, len), 0-based start
slice(data, start, len) == SubSeq(data, start + 1, start + len)

RECURSIVE SepIndexFrom(_, _)
SepIndexFrom(b, sepIndex) ==
    IF sepIndex < Len(b) /\ b[sepIndex + 1] # "|"
    THEN SepIndexFrom(b, sepIndex + 1)
    ELSE sepIndex

\* _parseQuizResponse: ok = FALSE where the checked subtraction
\* b.length - (sepIndex + 1) underflows and the call reverts.
parseQuizResponse(resp) ==
    LET sepIndex == SepIndexFrom(resp, 0) IN
        IF Len(resp) < sepIndex + 1
        THEN [ok |-> FALSE, quizId |-> << >>, numQ |-> 0]
        ELSE [ok |-> TRUE,
              quizId |-> slice(resp, 0, sepIndex),
              numQ |-> atoi(slice(resp, sepIndex + 1, Len(resp) - (sepIndex + 1)))]

\* _areValidDomains that looks at the first topic only
areValidDomains_FirstOnly(domains) ==
    Len(domains) = 0 \/ \E j \in 1..Len(availableDomains) : domains[1] = availableDomains[j]

\* _areValidDomains
areValidDomains(domains) ==
    \A i \in 1..Len(domains) :
        \E j \in 1..Len(availableDomains) : domains[i] = availableDomains[j]

RECURSIVE ShiftRight8(_, _)
ShiftRight8(w, i) == IF i = 0 THEN w ELSE ShiftRight8(w \div 256, i - 1)

\* ------------------------------------------------------------------ state
VARIABLES
    sessions,                  \* ChainQuiz.sessions: participant -> QuizSession
    functionsRequestToPlayer,  \* ChainQuiz.functionsRequestToPlayer
    requests,                  \* VRFConsumer.requests: id -> RequestStatus
    lastRequestId,             \* VRFConsumer.lastRequestId (ids are handed out in order)
    balance,                   \* $QUIZ balances of the participants and of the contract
    allowance,                 \* $QUIZ allowance of each participant to the contract
    now,                       \* block.timestamp
    ticks,                     \* block-time steps taken
    sent,                      \* Functions router: the requests _sendRequest has sent
    ledger,                    \* per participant, the token transfers of the latest session
    leaderboardScore,          \* ChainQuiz.leaderboardScore (the version with finishQuiz)
    last,                      \* the latest transaction: call, caller, outcome, input
    Quizzes,                   \* the Supabase table "Quizzes" of the quiz server
    handlers,                  \* the server's /verifyAnswer requests in progress
    served                     \* the server's requests so far and the answers it confirmed

\* the contracts, the token and the oracles
onchain == << sessions, functionsRequestToPlayer, requests, lastRequestId, balance,
              allowance, now, ticks, sent, ledger, leaderboardScore, last >>

\* the quiz server and its database
offchain == << Quizzes, handlers, served >>

vars == << onchain, offchain >>

\* The contract's own storage and the token: what a reverted call leaves alone.
chain == << sessions, functionsRequestToPlayer, requests, lastRequestId, balance,
            allowance, sent, leaderboardScore >>

\* _selectRandomDomains that mixes the block time into the word
selectRandomDomains_Timestamped(randomWord, numQuestions) ==
    [i \in 1..numQuestions |->
        availableDomains[(ShiftRight8(randomWord + now, i - 1) % Len(availableDomains)) + 1]]

\* _selectRandomDomains
selectRandomDomains(randomWord, numQuestions) ==
    [i \in 1..numQuestions |->
        availableDomains[(ShiftRight8(randomWord, i - 1) % Len(availableDomains)) + 1]]

\* delete sessions[p]: every field of QuizSession at its default
DefaultSession ==
    [quizId |-> << >>, questionIndex |-> 0, correctCount |-> 0, startedAt |-> 0,
     active |-> FALSE, numQuestions |-> 0, vrfRequestId |-> 0]

\* a VRFConsumer.requests entry never written
DefaultRequestStatus ==
    [fulfilled |-> FALSE, exists |-> FALSE, randomWords |-> << >>, requester |-> NoPlayer]

\* a request stored as already fulfilled
NewRequestStatus_Fulfilled(requester) ==
    [fulfilled |-> TRUE, exists |-> TRUE, randomWords |-> << >>, requester |-> requester]

\* the entry VRFConsumer.requestRandomWords stores for a new request
NewRequestStatus(requester) ==
    [fulfilled |-> FALSE, exists |-> TRUE, randomWords |-> << >>, requester |-> requester]

\* VRFConsumer.getRequestStatus, a view: ok = FALSE where it reverts
getRequestStatus(requestId) ==
    [ok |-> requests[requestId].exists,
     fulfilled |-> requests[requestId].fulfilled,
     randomWords |-> requests[requestId].randomWords,
     requester |-> requests[requestId].requester]

\* sent[r]: the source a request runs, the player and session it was sent for,
\* whether the session had its content when the request was sent, and whether
\* fulfillRequest has accepted a callback for it
NotSent ==
    [kind |-> "none", player |-> NoPlayer, vrf |-> 0, inProgress |-> FALSE,
     consumed |-> FALSE]

\* ledger[p]: tokens pulled from p (in) and paid to p (out) in p's latest session,
\* the number of payments, how the session ended, and the sessions p has open
\* (VRFRequestInitiated events less QuizCancelled and QuizCompleted events).
EmptyLedger == [in |-> 0, out |-> 0, transfers |-> 0, end |-> "none", open |-> 0]

Call(op, who, ok, arg) == [op |-> op, who |-> who, ok |-> ok, arg |-> arg]

\* The quiz server before any request: no row in "Quizzes", no request in
\* progress.  completed_at is << >> for null and << t >> for a time.
QuizIds == {"quiz1"}
Handlers == {"h1", "h2"}
Null == << >>
NoRow == [exists |-> FALSE, questions |-> << >>, correct_count |-> 0, completed_at |-> Null]
IdleHandler ==
    [pc |-> "idle", quizId |-> "", questionId |-> << >>, isCorrect |-> FALSE,
     newCorrect |-> 0, newCompletedAt |-> Null]
NothingServed == [requests |-> 0, correct |-> 0, verified |-> {}]

ServerIdle ==
    /\ Quizzes = [q \in QuizIds |-> NoRow]
    /\ handlers = [h \in Handlers |-> IdleHandler]
    /\ served = NothingServed

Init ==
    /\ sessions = [p \in Players |-> DefaultSession]
    /\ functionsRequestToPlayer = [r \in FnIds |-> NoPlayer]
    /\ requests = [v \in VrfIds |-> DefaultRequestStatus]
    /\ lastRequestId = 0
    /\ \E b \in [Players -> InitialBalances] :
           balance = [a \in Players \cup {Contract} |-> IF a = Contract THEN 0 ELSE b[a]]
    /\ allowance \in [Players -> InitialAllowances]
    /\ now = 1
    /\ ticks = 0
    /\ sent = [r \in FnIds |-> NotSent]
    /\ ledger = [p \in Players |-> EmptyLedger]
    /\ leaderboardScore = [p \in Players |-> 0]
    /\ last = Call("deploy", NoPlayer, TRUE, 0)
    /\ ServerIdle

\* A transaction that reverts: nothing but the record of the call changes.
Reverted(op, who, arg) ==
    /\ last' = Call(op, who, FALSE, arg)
    /\ UNCHANGED << chain, now, ticks, ledger, offchain >>

\* The next Functions request id (_sendRequest), 0 when the run has used them up.
NextFunctionsRequestId ==
    IF \E r \in FnIds : sent[r].kind = "none"
    THEN CHOOSE r \in FnIds : sent[r].kind = "none" /\ \A q \in 1..(r - 1) : sent[q].kind # "none"
    ELSE 0

\* a callback of p's current session has been consumed, so its content is set
ContentAccepted(p) ==
    \E r \in FnIds : /\ sent[r].kind # "none" /\ sent[r].player = p
                     /\ sent[r].vrf = sessions[p].vrfRequestId
                     /\ functionsRequestToPlayer[r] = NoPlayer

\* ------------------------------------------------------------- operations
\* startQuiz without require(!session.active)
startQuizAccepts_NoActiveCheck(p, domains) ==
    /\ Len(domains) >= 5
    /\ areValidDomains(domains)
    /\ balance[p] >= ENTRY_FEE
    /\ allowance[p] >= ENTRY_FEE

\* startQuiz without the allowance require
startQuizAccepts_NoAllowanceCheck(p, domains) ==
    /\ Len(domains) >= 5
    /\ areValidDomains(domains)
    /\ ~sessions[p].active
    /\ balance[p] >= ENTRY_FEE

startQuizAccepts(p, domains) ==
    /\ Len(domains) >= 5
    /\ areValidDomains(domains)
    /\ ~sessions[p].active
    /\ balance[p] >= ENTRY_FEE
    /\ allowance[p] >= ENTRY_FEE

startQuiz(p, domains) ==
    IF startQuizAccepts(p, domains)
    THEN /\ lastRequestId < MaxVrfRequests
         /\ LET requestId == lastRequestId + 1 IN
            /\ balance' = [balance EXCEPT ![p] = @ - ENTRY_FEE, ![Contract] = @ + ENTRY_FEE]
            /\ allowance' = [allowance EXCEPT ![p] = @ - ENTRY_FEE]
            /\ requests' = [requests EXCEPT ![requestId] = NewRequestStatus(p)]
            /\ lastRequestId' = requestId
            /\ sessions' = [sessions EXCEPT ![p] =
                   [@ EXCEPT !.active = TRUE, !.questionIndex = 0, !.correctCount = 0,
                             !.startedAt = now, !.numQuestions = MAX_QUESTIONS,
                             !.vrfRequestId = requestId,
                             !.quizId = << "t", "e", "m", "p", "_" >> \o uint2str(requestId)]]
            /\ ledger' = [ledger EXCEPT ![p] =
                   [in |-> ENTRY_FEE, out |-> 0, transfers |-> 0, end |-> "active",
                    open |-> @.open + 1]]
            /\ last' = Call("startQuiz", p, TRUE, domains)
         /\ UNCHANGED << functionsRequestToPlayer, now, ticks, sent, leaderboardScore, offchain >>
    ELSE Reverted("startQuiz", p, domains)

\* checkVRFAndGenerateQuiz without require(session.vrfRequestId == vrfRequestId)
checkVRFAccepts_AnyRequest(p, vrfRequestId) ==
    /\ sessions[p].active
    /\ vrfRequestId \in VrfIds
    /\ requests[vrfRequestId].exists
    /\ requests[vrfRequestId].fulfilled
    /\ requests[vrfRequestId].requester = p

checkVRFAccepts(p, vrfRequestId) ==
    /\ sessions[p].active
    /\ sessions[p].vrfRequestId = vrfRequestId
    /\ vrfRequestId \in VrfIds
    /\ requests[vrfRequestId].exists
    /\ requests[vrfRequestId].fulfilled
    /\ requests[vrfRequestId].requester = p

checkVRFAndGenerateQuiz(p, vrfRequestId) ==
    IF checkVRFAccepts(p, vrfRequestId)
    THEN /\ NextFunctionsRequestId # 0
         /\ LET randomWord == requests[vrfRequestId].randomWords[1]
                functionsRequestId == NextFunctionsRequestId
            IN
            /\ sessions' = [sessions EXCEPT ![p].quizId =
                   << "q", "u", "i", "z", "_" >> \o uint2str(randomWord % 100000000)]
            /\ sent' = [sent EXCEPT ![functionsRequestId] =
                   [kind |-> "generate", player |-> p, vrf |-> sessions[p].vrfRequestId,
                    inProgress |-> FALSE, consumed |-> FALSE]]
            /\ functionsRequestToPlayer' =
                   [functionsRequestToPlayer EXCEPT ![functionsRequestId] = p]
            /\ last' = Call("checkVRFAndGenerateQuiz", p, TRUE, vrfRequestId)
         /\ UNCHANGED << requests, lastRequestId, balance, allowance, now, ticks,
                         ledger, leaderboardScore, offchain >>
    ELSE Reverted("checkVRFAndGenerateQuiz", p, vrfRequestId)

\* submitAnswer without the deadline test
submitAnswerAccepts_NoDeadline(p, selectedIndex) ==
    /\ sessions[p].active
    /\ (selectedIndex < 4 \/ selectedIndex = 255)

submitAnswerAccepts(p, selectedIndex) ==
    /\ sessions[p].active
    /\ now <= sessions[p].startedAt + MAX_QUIZ_DURATION
    /\ (selectedIndex < 4 \/ selectedIndex = 255)

submitAnswer(p, selectedIndex) ==
    IF submitAnswerAccepts(p, selectedIndex)
    THEN /\ NextFunctionsRequestId # 0
         /\ LET requestId == NextFunctionsRequestId IN
            /\ sent' = [sent EXCEPT ![requestId] =
                   [kind |-> "verify", player |-> p, vrf |-> sessions[p].vrfRequestId,
                    inProgress |-> ContentAccepted(p), consumed |-> FALSE]]
            /\ functionsRequestToPlayer' = [functionsRequestToPlayer EXCEPT ![requestId] = p]
            /\ last' = Call("submitAnswer", p, TRUE, selectedIndex)
         /\ UNCHANGED << sessions, requests, lastRequestId, balance, allowance, now,
                         ticks, ledger, leaderboardScore, offchain >>
    ELSE Reverted("submitAnswer", p, selectedIndex)

\* cancelQuiz with >= for > in the deadline test
cancelQuizAccepts_AtDeadline(p) ==
    /\ sessions[p].active
    /\ now >= sessions[p].startedAt + MAX_QUIZ_DURATION

\* cancelQuiz without require(session.active)
cancelQuizAccepts_NoActiveCheck(p) ==
    now > sessions[p].startedAt + MAX_QUIZ_DURATION

\* cancelQuiz measuring the deadline from the wrong constant
cancelQuizAccepts_LongDeadline(p) ==
    /\ sessions[p].active
    /\ now > sessions[p].startedAt + MAX_QUIZ_DURATION * MAX_QUESTIONS

cancelQuizAccepts(p) ==
    /\ sessions[p].active
    /\ now > sessions[p].startedAt + MAX_QUIZ_DURATION

\* a refund less a penalty
cancelQuizRefund_Partial == ENTRY_FEE - REWARD_PER_QUESTION

\* a refund of more than the stake
cancelQuizRefund_Double == 2 * ENTRY_FEE

\* uint256 refund = ENTRY_FEE
cancelQuizRefund == ENTRY_FEE

\* cancelQuiz that clears the flag and does not delete the record
cancelQuizLeaves_FlagOnly(p) == [sessions[p] EXCEPT !.active = FALSE]

\* the session record cancelQuiz leaves: delete sessions[msg.sender]
cancelQuizLeaves(p) == DefaultSession

cancelQuiz(p) ==
    IF cancelQuizAccepts(p) /\ balance[Contract] >= cancelQuizRefund
    THEN /\ balance' = [balance EXCEPT ![Contract] = @ - cancelQuizRefund,
                                       ![p] = @ + cancelQuizRefund]
         /\ sessions' = [sessions EXCEPT ![p] = cancelQuizLeaves(p)]
         /\ ledger' = [ledger EXCEPT ![p] =
                [@ EXCEPT !.out = @ + cancelQuizRefund, !.transfers = @ + 1,
                          !.end = "cancelled", !.open = @ - 1]]
         /\ last' = Call("cancelQuiz", p, TRUE, 0)
         /\ UNCHANGED << functionsRequestToPlayer, requests, lastRequestId, allowance,
                         now, ticks, sent, leaderboardScore, offchain >>
    ELSE Reverted("cancelQuiz", p, 0)

\* ---------------------------------------------------------------- callbacks
\* a reward that never exceeds the stake
settlementReward_CappedAtStake(correctCount) ==
    IF correctCount * REWARD_PER_QUESTION > ENTRY_FEE THEN ENTRY_FEE
    ELSE correctCount * REWARD_PER_QUESTION

\* uint256 reward = session.correctCount * REWARD_PER_QUESTION
settlementReward(correctCount) == correctCount * REWARD_PER_QUESTION

\* fulfillRequest that counts every callback as an answered question
fulfillRequestEffect_CountsEveryCallback(player, response) ==
    LET session == sessions[player]
        parsed == parseQuizResponse(response)
    IN
    [ok |-> parsed.ok,
     session |-> [session EXCEPT
         !.quizId = parsed.quizId,
         !.numQuestions = IF parsed.numQ > MAX_QUESTIONS THEN MAX_QUESTIONS
                          ELSE parsed.numQ,
         !.questionIndex = @ + 1],
     ev |-> {"QuizGenerated"}, reward |-> 0, settled |-> FALSE]

\* fulfillRequest that stamps startedAt anew when it accepts a callback
fulfillRequestEffect_Restamps(player, response) ==
    LET session == sessions[player]
        parsed == parseQuizResponse(response)
    IN
    [ok |-> parsed.ok,
     session |-> [session EXCEPT
         !.quizId = parsed.quizId,
         !.numQuestions = IF parsed.numQ > MAX_QUESTIONS THEN MAX_QUESTIONS
                          ELSE parsed.numQ,
         !.startedAt = now],
     ev |-> {"QuizGenerated"}, reward |-> 0, settled |-> FALSE]

\* The session and the payout fulfillRequest leaves for a request it accepts;
\* ok = FALSE where the callback reverts.
fulfillRequestEffect(player, response) ==
    LET session == sessions[player] IN
    IF session.questionIndex = 0
    THEN LET parsed == parseQuizResponse(response) IN
         [ok |-> parsed.ok,
          session |-> [session EXCEPT
              !.quizId = parsed.quizId,
              !.numQuestions = IF parsed.numQ > MAX_QUESTIONS THEN MAX_QUESTIONS
                               ELSE parsed.numQ],
          ev |-> {"QuizGenerated"}, reward |-> 0, settled |-> FALSE]
    ELSE LET isCorrect == Len(response) > 0 /\ response[1] = "1"
             correctCount == IF isCorrect THEN session.correctCount + 1
                             ELSE session.correctCount
             questionIndex == session.questionIndex + 1
             reward == settlementReward(correctCount)
         IN
         IF questionIndex >= session.numQuestions
         THEN [ok |-> Len(response) > 0 /\ balance[Contract] >= reward,
               session |-> DefaultSession,
               ev |-> {"AnswerSubmitted", "QuizCompleted"},
               reward |-> reward, settled |-> TRUE]
         ELSE [ok |-> Len(response) > 0,
               session |-> [session EXCEPT !.correctCount = correctCount,
                                           !.questionIndex = questionIndex],
               ev |-> {"AnswerSubmitted"}, reward |-> 0, settled |-> FALSE]

\* fulfillRequest that clears the whole request-to-player mapping
fulfillRequestConsumes_All(requestId) == [r \in FnIds |-> NoPlayer]

\* fulfillRequest that leaves the request id mapped to its player
fulfillRequestConsumes_Keeps(requestId) == functionsRequestToPlayer

\* delete functionsRequestToPlayer[requestId]
fulfillRequestConsumes(requestId) ==
    [functionsRequestToPlayer EXCEPT ![requestId] = NoPlayer]

fulfillRequestAccepts(requestId) ==
    /\ functionsRequestToPlayer[requestId] # NoPlayer
    /\ sessions[functionsRequestToPlayer[requestId]].active

\* The router delivers the callback of a request it was sent, at any time and
\* any number of times; a callback that reverts changes nothing.
fulfillRequest(requestId, response) ==
    /\ sent[requestId].kind # "none"
    /\ response \in (IF sent[requestId].kind = "generate" THEN GenerateResponses
                     ELSE VerifyResponses)
    /\ LET player == functionsRequestToPlayer[requestId]
           effect == fulfillRequestEffect(player, response)
       IN
       IF fulfillRequestAccepts(requestId) /\ effect.ok
       THEN /\ sessions' = [sessions EXCEPT ![player] = effect.session]
            /\ balance' = [balance EXCEPT ![Contract] = @ - effect.reward,
                                          ![player] = @ + effect.reward]
            /\ ledger' = [ledger EXCEPT ![player] =
                   IF effect.settled
                   THEN [@ EXCEPT !.out = @ + effect.reward,
                                  !.transfers = @ + (IF effect.reward > 0 THEN 1 ELSE 0),
                                  !.end = "settled", !.open = @ - 1]
                   ELSE @]
            /\ functionsRequestToPlayer' = fulfillRequestConsumes(requestId)
            /\ sent' = [sent EXCEPT ![requestId].consumed = TRUE]
            /\ last' = Call("fulfillRequest", player, TRUE, requestId)
            /\ UNCHANGED << requests, lastRequestId, allowance, now, ticks,
                            leaderboardScore, offchain >>
       ELSE Reverted("fulfillRequest", player, requestId)

\* VRFConsumer.fulfillRandomWords, called by the VRF coordinator
fulfillRandomWords(requestId, randomWord) ==
    IF requests[requestId].exists
    THEN /\ requests' = [requests EXCEPT ![requestId].fulfilled = TRUE,
                                         ![requestId].randomWords = << randomWord >>]
         /\ last' = Call("fulfillRandomWords", requests[requestId].requester, TRUE,
                         requestId)
         /\ UNCHANGED << sessions, functionsRequestToPlayer, lastRequestId, balance,
                         allowance, now, ticks, sent, ledger, leaderboardScore, offchain >>
    ELSE Reverted("fulfillRandomWords", NoPlayer, requestId)

\* block.timestamp moves on between transactions
Tick(d) ==
    /\ ticks < MaxTicks
    /\ now' = now + d
    /\ ticks' = ticks + 1
    /\ last' = Call("tick", NoPlayer, TRUE, d)
    /\ UNCHANGED << chain, ledger, offchain >>

\* selectedIndex values a caller may pass to submitAnswer
AnswerInputs == {1, 4, 255}

Next ==
    \/ \E p \in Players, domains \in DomainInputs : startQuiz(p, domains)
    \/ \E p \in Players, vrfRequestId \in VrfIds :
           checkVRFAndGenerateQuiz(p, vrfRequestId)
    \/ \E p \in Players, selectedIndex \in AnswerInputs : submitAnswer(p, selectedIndex)
    \/ \E p \in Players : cancelQuiz(p)
    \/ \E requestId \in FnIds, response \in GenerateResponses \cup VerifyResponses :
           fulfillRequest(requestId, response)
    \/ \E requestId \in VrfIds, randomWord \in RandomWords :
           fulfillRandomWords(requestId, randomWord)
    \/ \E d \in TickSteps : Tick(d)

Spec == Init /\ [][Next]_vars

\* ------------------------------------------------- the randomness consumer
\* VRFConsumer on its own terms: requestRandomWords is external and open to any
\* caller, and the coordinator's deliveries carry any of VrfWords.
VrfWords == {7, 8}

\* VRFConsumer.requestRandomWords called directly; the coordinator returns the
\* next request id
requestRandomWords(requester) ==
    IF requester # NoPlayer
    THEN /\ lastRequestId < MaxVrfRequests
         /\ LET requestId == lastRequestId + 1 IN
            /\ requests' = [requests EXCEPT ![requestId] = NewRequestStatus(requester)]
            /\ lastRequestId' = requestId
            /\ last' = Call("requestRandomWords", requester, TRUE, requestId)
         /\ UNCHANGED << sessions, functionsRequestToPlayer, balance, allowance, now,
                         ticks, sent, ledger, leaderboardScore, offchain >>
    ELSE Reverted("requestRandomWords", requester, 0)

VrfInit ==
    /\ sessions = [p \in Players |-> DefaultSession]
    /\ functionsRequestToPlayer = [r \in FnIds |-> NoPlayer]
    /\ requests = [v \in VrfIds |-> DefaultRequestStatus]
    /\ lastRequestId = 0
    /\ balance = [a \in Players \cup {Contract} |->
                      IF a = Contract THEN 0 ELSE 2 * ENTRY_FEE]
    /\ allowance = [a \in Players |-> 2 * ENTRY_FEE]
    /\ now = 1
    /\ ticks = 0
    /\ sent = [r \in FnIds |-> NotSent]
    /\ ledger = [p \in Players |-> EmptyLedger]
    /\ leaderboardScore = [p \in Players |-> 0]
    /\ last = Call("deploy", NoPlayer, TRUE, 0)
    /\ ServerIdle

VrfNext ==
    \/ \E requester \in Players \cup {NoPlayer} : requestRandomWords(requester)
    \/ \E requestId \in VrfIds, randomWord \in VrfWords :
           fulfillRandomWords(requestId, randomWord)
    \/ \E p \in Players, domains \in DomainInputs : startQuiz(p, domains)
    \/ \E p \in Players, vrfRequestId \in VrfIds :
           checkVRFAndGenerateQuiz(p, vrfRequestId)
    \/ \E p \in Players : cancelQuiz(p)
    \/ \E d \in TickSteps : Tick(d)

VrfSpec == VrfInit /\ [][VrfNext]_vars

\* ------------------------------------------------------ topic selection
\* The topic list checkVRFAndGenerateQuiz puts into a generate request, for
\* random words and question counts drawn here: each generate request of a run
\* records the word and count it was built from and the topics selected, and
\* block time may move on between two requests.
TopicWords == {0, 7, 16, 17, 66051, 1000003}
TopicCounts == {0, 1, 5, MAX_QUESTIONS}

selectTopics(randomWord, numQuestions) ==
    /\ NextFunctionsRequestId # 0
    /\ sent' = [sent EXCEPT ![NextFunctionsRequestId] =
           [kind |-> "generate", player |-> NoPlayer, vrf |-> 0, inProgress |-> FALSE,
            consumed |-> FALSE, randomWord |-> randomWord, numQuestions |-> numQuestions,
            topics |-> selectRandomDomains(randomWord, numQuestions)]]
    /\ last' = Call("_selectRandomDomains", NoPlayer, TRUE, randomWord)
    /\ UNCHANGED << sessions, functionsRequestToPlayer, requests, lastRequestId, balance,
                    allowance, now, ticks, ledger, leaderboardScore, offchain >>

TopicInit ==
    /\ sessions = [p \in Players |-> DefaultSession]
    /\ functionsRequestToPlayer = [r \in FnIds |-> NoPlayer]
    /\ requests = [v \in VrfIds |-> DefaultRequestStatus]
    /\ lastRequestId = 0
    /\ balance = [a \in Players \cup {Contract} |-> 0]
    /\ allowance = [p \in Players |-> 0]
    /\ now = 1
    /\ ticks = 0
    /\ sent = [r \in FnIds |-> NotSent]
    /\ ledger = [p \in Players |-> EmptyLedger]
    /\ leaderboardScore = [p \in Players |-> 0]
    /\ last = Call("deploy", NoPlayer, TRUE, 0)
    /\ ServerIdle

TopicNext ==
    \/ \E randomWord \in TopicWords, numQuestions \in TopicCounts :
           selectTopics(randomWord, numQuestions)
    \/ \E d \in TickSteps : Tick(d)

TopicSpec == TopicInit /\ [][TopicNext]_vars

\* ------------------------------------------------ the settlement branch
\* fulfillRequest applied to a stored session of alice that is past its first
\* question: questionIndex is numQuestions - 1 or numQuestions - 2, correctCount
\* is anything up to questionIndex, a verify request awaits its callback, and
\* the contract holds alice's stake alone or together with a second stake.
SettleInit ==
    /\ \E numQuestions \in 2..MAX_QUESTIONS, left \in 1..2, held \in 1..2 :
          \E correctCount \in 0..(numQuestions - left) :
           /\ numQuestions - left >= 1
           /\ sessions = [p \in Players |->
                  IF p = "alice"
                  THEN [quizId |-> << "a" >>, questionIndex |-> numQuestions - left,
                        correctCount |-> correctCount, startedAt |-> 1, active |-> TRUE,
                        numQuestions |-> numQuestions, vrfRequestId |-> 1]
                  ELSE DefaultSession]
           /\ balance = [a \in Players \cup {Contract} |->
                  IF a = Contract THEN held * ENTRY_FEE ELSE 0]
    /\ functionsRequestToPlayer = [r \in FnIds |-> IF r = 2 THEN "alice" ELSE NoPlayer]
    /\ requests = [v \in VrfIds |->
           IF v = 1
           THEN [fulfilled |-> TRUE, exists |-> TRUE, randomWords |-> << 7 >>,
                 requester |-> "alice"]
           ELSE DefaultRequestStatus]
    /\ lastRequestId = 1
    /\ allowance = [p \in Players |-> 0]
    /\ now = 1
    /\ ticks = 0
    /\ sent = [r \in FnIds |->
           IF r = 1
           THEN [kind |-> "generate", player |-> "alice", vrf |-> 1,
                 inProgress |-> FALSE, consumed |-> TRUE]
           ELSE IF r = 2
           THEN [kind |-> "verify", player |-> "alice", vrf |-> 1,
                 inProgress |-> TRUE, consumed |-> FALSE]
           ELSE NotSent]
    /\ ledger = [p \in Players |->
           IF p = "alice"
           THEN [in |-> ENTRY_FEE, out |-> 0, transfers |-> 0, end |-> "active", open |-> 1]
           ELSE EmptyLedger]
    /\ leaderboardScore = [p \in Players |-> 0]
    /\ last = Call("deploy", NoPlayer, TRUE, 0)
    /\ ServerIdle

SettleNext ==
    \E requestId \in FnIds, response \in VerifyResponses :
        fulfillRequest(requestId, response)

SettleSpec == SettleInit /\ [][SettleNext]_vars

\* ------------------------------------------- the contract with finishQuiz
\* The ChainQuiz version that pays out in finishQuiz.  Its PlayerSession record
\* is kept in `sessions` and its token in `balance`; amounts are in any unit.
NUM_QUESTIONS == 10

\* delete sessions[msg.sender]: every field of PlayerSession at its default
DefaultPlayerSession ==
    [startTime |-> 0, questionIndex |-> 0, stakeAmount |-> 0, correctCount |-> 0,
     quizId |-> << >>, isActive |-> FALSE]

\* stakeAmount values a stored session is drawn with: the entry fee, the stake
\* of the worked example, and one that NUM_QUESTIONS does not divide
StakeAmounts == {ENTRY_FEE, 100, 7}

\* the reward with the division taken before the product
finishQuizReward_DivideFirst(stakeAmount, correctCount) ==
    (stakeAmount \div NUM_QUESTIONS) * correctCount

\* uint256 reward = (s.stakeAmount * s.correctCount) / NUM_QUESTIONS
finishQuizReward(stakeAmount, correctCount) ==
    (stakeAmount * correctCount) \div NUM_QUESTIONS

\* finishQuiz is applied to a stored session of alice drawn over every stake in
\* StakeAmounts, every correctCount and the last two values of questionIndex,
\* with the stake, and nothing else, in the contract's custody.
FinishInit ==
    /\ \E stakeAmount \in StakeAmounts, correctCount \in 0..NUM_QUESTIONS,
          questionIndex \in {NUM_QUESTIONS - 1, NUM_QUESTIONS} :
           /\ sessions = [p \in Players |->
                  IF p = "alice"
                  THEN [startTime |-> 1, questionIndex |-> questionIndex,
                        stakeAmount |-> stakeAmount, correctCount |-> correctCount,
                        quizId |-> << "a" >>, isActive |-> TRUE]
                  ELSE DefaultPlayerSession]
           /\ balance = [a \in Players \cup {Contract} |->
                  IF a = Contract THEN stakeAmount ELSE 0]
    /\ functionsRequestToPlayer = [r \in FnIds |-> NoPlayer]
    /\ requests = [v \in VrfIds |-> DefaultRequestStatus]
    /\ lastRequestId = 0
    /\ allowance = [p \in Players |-> 0]
    /\ now = 1
    /\ ticks = 0
    /\ sent = [r \in FnIds |-> NotSent]
    /\ ledger = [p \in Players |-> EmptyLedger]
    /\ leaderboardScore = [p \in Players |-> 0]
    /\ last = Call("deploy", NoPlayer, TRUE, 0)
    /\ ServerIdle

finishQuizAccepts(p) ==
    /\ sessions[p].isActive
    /\ sessions[p].questionIndex = NUM_QUESTIONS

\* finishQuiz without delete sessions[msg.sender]
finishQuizLeaves_Kept(p) == sessions[p]

\* delete sessions[msg.sender]
finishQuizLeaves(p) == DefaultPlayerSession

finishQuiz(p) ==
    LET reward == finishQuizReward(sessions[p].stakeAmount, sessions[p].correctCount) IN
    IF finishQuizAccepts(p) /\ (reward > 0 => balance[Contract] >= reward)
    THEN /\ balance' = [balance EXCEPT ![Contract] = @ - reward, ![p] = @ + reward]
         /\ leaderboardScore' = [leaderboardScore EXCEPT ![p] =
                @ + sessions[p].correctCount * sessions[p].stakeAmount]
         /\ sessions' = [sessions EXCEPT ![p] = finishQuizLeaves(p)]
         /\ ledger' = [ledger EXCEPT ![p] =
                [@ EXCEPT !.out = @ + reward,
                          !.transfers = @ + (IF reward > 0 THEN 1 ELSE 0),
                          !.end = "settled"]]
         /\ last' = Call("finishQuiz", p, TRUE, reward)
         /\ UNCHANGED << functionsRequestToPlayer, requests, lastRequestId, allowance,
                         now, ticks, sent, offchain >>
    ELSE Reverted("finishQuiz", p, 0)

QUESTION_TIMEOUT == 45

\* cancelQuiz of this contract with no isActive test
cancelQuiz006Accepts_NoActiveCheck(p) ==
    now > sessions[p].startTime + (QUESTION_TIMEOUT * NUM_QUESTIONS)

cancelQuiz006Accepts(p) ==
    /\ sessions[p].isActive
    /\ now > sessions[p].startTime + (QUESTION_TIMEOUT * NUM_QUESTIONS)

\* cancelQuiz of the contract with finishQuiz
cancelQuiz006(p) ==
    LET refund == sessions[p].stakeAmount IN
    IF cancelQuiz006Accepts(p) /\ balance[Contract] >= refund
    THEN /\ sessions' = [sessions EXCEPT ![p] = DefaultPlayerSession]
         /\ balance' = [balance EXCEPT ![Contract] = @ - refund, ![p] = @ + refund]
         /\ ledger' = [ledger EXCEPT ![p] =
                [@ EXCEPT !.out = @ + refund, !.transfers = @ + 1,
                          !.end = "cancelled"]]
         /\ last' = Call("cancelQuiz", p, TRUE, refund)
         /\ UNCHANGED << functionsRequestToPlayer, requests, lastRequestId, allowance,
                         now, ticks, sent, leaderboardScore, offchain >>
    ELSE Reverted("cancelQuiz", p, 0)

FinishNext ==
    \/ \E p \in Players : finishQuiz(p)
    \/ \E p \in Players : cancelQuiz006(p)
    \/ \E d \in TickSteps : Tick(d)

FinishSpec == FinishInit /\ [][FinishNext]_vars

\* The same contract from its deployment. block.timestamp is Unix time.
DeployTimes == {1700000000}

\* the Functions router, msg.sender of every callback
Router == "router"

\* domains arrays a caller may pass: DomainInputs and one of three entries
DomainInputs006 == DomainInputs \cup { << "DeFi", "Oracles", "ZKP" >> }

startQuiz006Accepts(p, domains) ==
    /\ ~sessions[p].isActive
    /\ Len(domains) >= 4
    /\ balance[p] >= ENTRY_FEE
    /\ allowance[p] >= ENTRY_FEE

\* startQuiz of the contract with finishQuiz; ledger[p].startedAt keeps the
\* block time of the call
startQuiz006(p, domains) ==
    IF startQuiz006Accepts(p, domains)
    THEN /\ NextFunctionsRequestId # 0
         /\ balance' = [balance EXCEPT ![p] = @ - ENTRY_FEE, ![Contract] = @ + ENTRY_FEE]
         /\ allowance' = [allowance EXCEPT ![p] = @ - ENTRY_FEE]
         /\ sent' = [sent EXCEPT ![NextFunctionsRequestId] =
                [kind |-> "generate", player |-> p, vrf |-> 0, inProgress |-> FALSE,
                 consumed |-> FALSE]]
         /\ sessions' = [sessions EXCEPT ![p] =
                [startTime |-> 0, questionIndex |-> 0, stakeAmount |-> ENTRY_FEE,
                 correctCount |-> 0, quizId |-> << >>, isActive |-> TRUE]]
         /\ ledger' = [ledger EXCEPT ![p] =
                [in |-> ENTRY_FEE, out |-> 0, transfers |-> 0, end |-> "active",
                 open |-> @.open + 1, startedAt |-> now]]
         /\ last' = Call("startQuiz", p, TRUE, domains)
         /\ UNCHANGED << functionsRequestToPlayer, requests, lastRequestId, now, ticks,
                         leaderboardScore, offchain >>
    ELSE Reverted("startQuiz", p, domains)

\* fulfillRequest of the contract with finishQuiz: the session it reads is
\* that of msg.sender, the router, which never called startQuiz
fulfillRequest006(requestId, response) ==
    /\ sent[requestId].kind # "none"
    /\ LET player == Router
           s == IF player \in Players THEN sessions[player] ELSE DefaultPlayerSession
       IN
       IF s.isActive
       THEN /\ sessions' = [sessions EXCEPT ![player] =
                   [s EXCEPT !.quizId = response, !.startTime = now]]
            /\ sent' = [sent EXCEPT ![requestId].consumed = TRUE]
            /\ last' = Call("fulfillRequest", player, TRUE, requestId)
            /\ UNCHANGED << functionsRequestToPlayer, requests, lastRequestId, balance,
                            allowance, now, ticks, ledger, leaderboardScore, offchain >>
       ELSE Reverted("fulfillRequest", player, requestId)

submitAnswer006Accepts(p) ==
    /\ sessions[p].isActive
    /\ sessions[p].questionIndex < NUM_QUESTIONS
    /\ now <= sessions[p].startTime + (sessions[p].questionIndex * QUESTION_TIMEOUT)
                  + QUESTION_TIMEOUT

\* submitAnswer of the contract with finishQuiz
submitAnswer006(p, selectedIndex) ==
    IF submitAnswer006Accepts(p)
    THEN /\ NextFunctionsRequestId # 0
         /\ sent' = [sent EXCEPT ![NextFunctionsRequestId] =
                [kind |-> "verify", player |-> p, vrf |-> 0, inProgress |-> FALSE,
                 consumed |-> FALSE]]
         /\ last' = Call("submitAnswer", p, TRUE, selectedIndex)
         /\ UNCHANGED << sessions, functionsRequestToPlayer, requests, lastRequestId,
                         balance, allowance, now, ticks, ledger, leaderboardScore, offchain >>
    ELSE Reverted("submitAnswer", p, selectedIndex)

DeployInit006 ==
    /\ sessions = [p \in Players |-> DefaultPlayerSession]
    /\ functionsRequestToPlayer = [r \in FnIds |-> NoPlayer]
    /\ requests = [v \in VrfIds |-> DefaultRequestStatus]
    /\ lastRequestId = 0
    /\ \E b \in [Players -> InitialBalances] :
           balance = [a \in Players \cup {Contract} |-> IF a = Contract THEN 0 ELSE b[a]]
    /\ allowance \in [Players -> InitialAllowances]
    /\ now \in DeployTimes
    /\ ticks = 0
    /\ sent = [r \in FnIds |-> NotSent]
    /\ ledger = [p \in Players |-> EmptyLedger]
    /\ leaderboardScore = [p \in Players |-> 0]
    /\ last = Call("deploy", NoPlayer, TRUE, 0)
    /\ ServerIdle

DeployNext006 ==
    \/ \E p \in Players, domains \in DomainInputs006 : startQuiz006(p, domains)
    \/ \E requestId \in FnIds, response \in { << "a" >> } :
           fulfillRequest006(requestId, response)
    \/ \E p \in Players, selectedIndex \in AnswerInputs : submitAnswer006(p, selectedIndex)
    \/ \E p \in Players : finishQuiz(p)
    \/ \E p \in Players : cancelQuiz006(p)
    \/ \E d \in TickSteps : Tick(d)

DeploySpec006 == DeployInit006 /\ [][DeployNext006]_vars

\* ------------------------------------------------------- the quiz server
\* eliza-server.js: /generateQuiz inserts a row, /verifyAnswer reads the row,
\* and after the read has returned writes correct_count and completed_at back.
\* Requests are handled concurrently: the server awaits the database twice in
\* /verifyAnswer, and other requests run in between.
MaxVerifyRequests == 11

\* generateQuestions accepts exactly this many questions
QuestionsPerQuiz == 10

\* the questions the LLM is prompted for: ids q1..q10, correctIndex in 0..2
GeneratedQuestions ==
    [i \in 1..QuestionsPerQuiz |->
        [id |-> << "q" >> \o uint2str(i), correctIndex |-> i % 3]]

\* questionId and selectedIndex values a /verifyAnswer request may carry: the
\* first and the last question and one that does not exist; the correct
\* option of q1 and q10, and a wrong one
QuestionIdInputs == { << "q", "1" >>, << "q", "1", "0" >>, << "q", "1", "1" >> }
SelectedIndexInputs == {1, 2}

\* parseInt of a string of decimal digits
parseInt(str) == atoi(str)

\* questions.find((qq) => qq.id === questionId): the index of the first match,
\* 0 for undefined
findQuestion(questions, questionId) ==
    IF \E i \in 1..Len(questions) : questions[i].id = questionId
    THEN CHOOSE i \in 1..Len(questions) :
             /\ questions[i].id = questionId
             /\ \A j \in 1..(i - 1) : questions[j].id # questionId
    ELSE 0

\* app.post("/generateQuiz"): a row with a fresh quiz_id
generateQuiz(quizId) ==
    /\ ~Quizzes[quizId].exists
    /\ Quizzes' = [Quizzes EXCEPT ![quizId] =
           [exists |-> TRUE, questions |-> GeneratedQuestions, correct_count |-> 0,
            completed_at |-> Null]]
    /\ UNCHANGED << onchain, handlers, served >>

\* /verifyAnswer from the arrival of the request to the update it issues:
\* the row is read, the question looked up, and the new values computed
\* from the row as read.  A missing row or question ends the request.
verifyAnswerFetch(h, quizId, questionId, selectedIndex) ==
    /\ handlers[h].pc = "idle"
    /\ served.requests < MaxVerifyRequests
    /\ served' = [served EXCEPT !.requests = @ + 1]
    /\ LET data == Quizzes[quizId]
           found == findQuestion(data.questions, questionId)
       IN
       IF data.exists /\ found # 0
       THEN LET isCorrect == selectedIndex = data.questions[found].correctIndex
                idxNum == parseInt(SubSeq(questionId, 2, Len(questionId)))
            IN
            handlers' = [handlers EXCEPT ![h] =
                [pc |-> "update", quizId |-> quizId, questionId |-> questionId,
                 isCorrect |-> isCorrect,
                 newCorrect |-> IF isCorrect THEN data.correct_count + 1
                                ELSE data.correct_count,
                 newCompletedAt |-> IF isCorrect /\ idxNum = Len(data.questions)
                                    THEN << served.requests + 1 >>
                                    ELSE data.completed_at]]
       ELSE handlers' = handlers
    /\ UNCHANGED << onchain, Quizzes >>

\* /verifyAnswer from the update to the response { isCorrect }
verifyAnswerUpdate(h) ==
    /\ handlers[h].pc = "update"
    /\ Quizzes' = [Quizzes EXCEPT ![handlers[h].quizId] =
           [@ EXCEPT !.correct_count = handlers[h].newCorrect,
                     !.completed_at = handlers[h].newCompletedAt]]
    /\ served' = [served EXCEPT
           !.correct = IF handlers[h].isCorrect THEN @ + 1 ELSE @,
           !.verified = @ \cup {handlers[h].questionId}]
    /\ handlers' = [handlers EXCEPT ![h] = IdleHandler]
    /\ UNCHANGED onchain

ServerInit ==
    /\ sessions = [p \in Players |-> DefaultSession]
    /\ functionsRequestToPlayer = [r \in FnIds |-> NoPlayer]
    /\ requests = [v \in VrfIds |-> DefaultRequestStatus]
    /\ lastRequestId = 0
    /\ balance = [a \in Players \cup {Contract} |-> 0]
    /\ allowance = [a \in Players |-> 0]
    /\ now = 1
    /\ ticks = 0
    /\ sent = [r \in FnIds |-> NotSent]
    /\ ledger = [p \in Players |-> EmptyLedger]
    /\ leaderboardScore = [p \in Players |-> 0]
    /\ last = Call("start", NoPlayer, TRUE, 0)
    /\ ServerIdle

ServerNext ==
    \/ \E quizId \in QuizIds : generateQuiz(quizId)
    \/ \E h \in Handlers, quizId \in QuizIds, questionId \in QuestionIdInputs,
          selectedIndex \in SelectedIndexInputs :
           verifyAnswerFetch(h, quizId, questionId, selectedIndex)
    \/ \E h \in Handlers : verifyAnswerUpdate(h)

ServerSpec == ServerInit /\ [][ServerNext]_vars

\* ------------------------------------------------------------------ claims
ValidDomains(domains) == Len(domains) >= 5 /\ areValidDomains(domains)

Expired(p) == now > sessions[p].startedAt + MAX_QUIZ_DURATION

\* Functions requests sent for p's current session whose callback the contract
\* has not consumed
Outstanding(p) ==
    { r \in FnIds : /\ sent[r].kind # "none"
                    /\ sent[r].player = p
                    /\ sent[r].vrf = sessions[p].vrfRequestId
                    /\ functionsRequestToPlayer[r] = p }

\* p's randomness request is not fulfilled yet
RandomnessPending(p) ==
    /\ sessions[p].vrfRequestId \in VrfIds
    /\ requests[sessions[p].vrfRequestId].exists
    /\ ~requests[sessions[p].vrfRequestId].fulfilled

\* The contract's storage, the router's requests and the token are as before.
Untouched ==
    UNCHANGED << sessions, functionsRequestToPlayer, requests, lastRequestId,
                 balance, allowance, sent >>

\* C1: a startQuiz call by a participant whose session is active is rejected and
\* changes neither the session nor any balance; no participant ever has more
\* than one session open.
C1_SingleSession ==
    [][\A p \in Players :
          /\ (last'.op = "startQuiz" /\ last'.who = p /\ sessions[p].active)
                 => (~last'.ok /\ Untouched)
          /\ ledger'[p].open <= 1
          /\ (ledger'[p].open = 1) = sessions'[p].active]_vars

\* a funded participant with an active session called startQuiz with valid
\* topics and was rejected
C1_Witness ==
    /\ last.op = "startQuiz" /\ ~last.ok
    /\ ValidDomains(last.arg)
    /\ sessions[last.who].active
    /\ balance[last.who] >= ENTRY_FEE /\ allowance[last.who] >= ENTRY_FEE

C3_NoDoubleTransfer ==
    [][\A p \in Players :
          /\ ledger'[p].transfers <= 1
          /\ (~sessions[p].active /\ ~(last'.op = "startQuiz" /\ last'.who = p /\ last'.ok))
                 => (balance'[p] = balance[p] /\ ledger'[p] = ledger[p])]_vars

\* a callback for a participant whose session was cancelled was delivered while
\* the contract still holds another stake
C3_Witness ==
    /\ last.op = "fulfillRequest" /\ last.who \in Players
    /\ ledger[last.who].end = "cancelled"
    /\ balance[Contract] >= ENTRY_FEE

C5_CancelFailsClosed ==
    [][\A p \in Players :
          (last'.op = "cancelQuiz" /\ last'.who = p
             /\ (~sessions[p].active \/ now <= sessions[p].startedAt + MAX_QUIZ_DURATION))
              => (~last'.ok /\ Untouched /\ ledger' = ledger)]_vars

\* cancelQuiz was rejected exactly at the deadline of an active session
C5_Witness ==
    /\ last.op = "cancelQuiz" /\ ~last.ok
    /\ sessions[last.who].active
    /\ now = sessions[last.who].startedAt + MAX_QUIZ_DURATION

\* C6: a successful cancelQuiz pays the participant exactly ENTRY_FEE out of the
\* contract's holdings, whatever the session's progress, and leaves every field
\* of the session record at its default.
C6_CancelUnwinds ==
    [][\A p \in Players :
          (last'.op = "cancelQuiz" /\ last'.who = p /\ last'.ok)
              => /\ balance'[p] = balance[p] + ENTRY_FEE
                 /\ balance'[Contract] = balance[Contract] - ENTRY_FEE
                 /\ ledger'[p].out = ENTRY_FEE
                 /\ sessions'[p] = DefaultSession
                 /\ \A q \in Players \ {p} : balance'[q] = balance[q]]_vars

\* a session whose content callback had been accepted was cancelled
C6_Witness ==
    /\ last.op = "cancelQuiz" /\ last.ok
    /\ sessions[last.who] = DefaultSession
    /\ \E r \in FnIds : /\ sent[r].kind = "generate" /\ sent[r].player = last.who
                        /\ functionsRequestToPlayer[r] = NoPlayer

\* C7: for an active session, the oracle requests (randomness, generate, verify)
\* issued for it and not yet answered number at most one.
C7_OneLiveRequest ==
    \A p \in Players :
        sessions[p].active
            => Cardinality(Outstanding(p)) + (IF RandomnessPending(p) THEN 1 ELSE 0) <= 1

\* C8: a submitAnswer call made while a verify request of the session awaits its
\* callback is rejected, sends no request and changes nothing.
C8_SecondSubmitRejected ==
    [][\A p \in Players :
          (last'.op = "submitAnswer" /\ last'.who = p /\ sessions[p].active
             /\ \E r \in Outstanding(p) : sent[r].kind = "verify")
              => (~last'.ok /\ Untouched)]_vars

\* C9: checkVRFAndGenerateQuiz called for a session whose generate request was
\* already sent sends no further request and leaves the session as it was.
C9_RandomnessConsumedOnce ==
    [][\A p \in Players :
          (last'.op = "checkVRFAndGenerateQuiz" /\ last'.who = p /\ sessions[p].active
             /\ \E r \in FnIds : /\ sent[r].kind = "generate" /\ sent[r].player = p
                                 /\ sent[r].vrf = sessions[p].vrfRequestId)
              => (sent' = sent /\ sessions' = sessions
                  /\ functionsRequestToPlayer' = functionsRequestToPlayer)]_vars

\* C10: fulfillRequest processes a callback as content-ready only if it answers
\* a generate request of the player's current session that has no content yet,
\* and as answer-verified only if it answers a verify request of the current
\* session that has its content.
C10_CallbacksInPhase ==
    [][\A r \in FnIds :
          (last'.op = "fulfillRequest" /\ last'.ok /\ last'.arg = r)
              => LET p == functionsRequestToPlayer[r] IN
                 /\ sent[r].vrf = sessions[p].vrfRequestId
                 /\ IF sessions[p].questionIndex = 0
                    THEN sent[r].kind = "generate" /\ ~ContentAccepted(p)
                    ELSE sent[r].kind = "verify" /\ ContentAccepted(p)]_vars

\* r is a verify request of p's current session, sent by submitAnswer after the
\* session's content was accepted, and not yet answered
VerifyPending(p, r) ==
    /\ sessions[p].active
    /\ ContentAccepted(p)
    /\ r \in Outstanding(p)
    /\ sent[r].kind = "verify"
    /\ sent[r].inProgress

\* C11: the delivery of the callback of a pending verify request of an
\* in-progress session that has more than one question, carrying '1' or '0',
\* makes questionIndex one greater than before and correctCount one greater if
\* and only if the callback carries '1'.
C11_VerifyAdvances ==
    [][\A p \in Players, r \in FnIds, response \in { << "1" >>, << "0" >> } :
          (VerifyPending(p, r) /\ sessions[p].numQuestions > 1
             /\ fulfillRequest(r, response))
              => /\ sessions'[p].questionIndex = sessions[p].questionIndex + 1
                 /\ sessions'[p].correctCount =
                        sessions[p].correctCount + (IF response = << "1" >> THEN 1 ELSE 0)]_vars

\* C12: a session whose randomness and content callbacks were delivered and
\* whose participant has answered every question settles with the delivery of
\* the last verify callback: when the callback ('1' or '0') of a pending verify
\* request is delivered to an in-progress session that has one question left,
\* the session is completed (QuizCompleted) and its record removed.
C12_SettlementReached ==
    [][\A p \in Players, r \in FnIds, response \in { << "1" >>, << "0" >> } :
          (VerifyPending(p, r)
             /\ sessions[p].questionIndex + 1 = sessions[p].numQuestions
             /\ fulfillRequest(r, response))
              => /\ ledger'[p].end = "settled"
                 /\ sessions'[p] = DefaultSession]_vars

\* r is the generate request of p's current session, which awaits its content
GeneratePending(p, r) ==
    /\ sessions[p].active
    /\ ~ContentAccepted(p)
    /\ r \in Outstanding(p)
    /\ sent[r].kind = "generate"

\* C13: the callback of the generate request of a session awaiting its content
\* is accepted only if the question count it carries lies in 1..MAX_QUESTIONS;
\* with a count of 0 or above MAX_QUESTIONS (or with no readable count) the
\* callback is rejected and the session keeps its quizId and numQuestions, and
\* after an accepted callback 1 <= numQuestions <= MAX_QUESTIONS.
C13_QuestionCountValidated ==
    [][\A p \in Players, r \in FnIds, response \in GenerateResponses :
          (GeneratePending(p, r) /\ fulfillRequest(r, response))
              => LET parsed == parseQuizResponse(response) IN
                 /\ ~(parsed.ok /\ parsed.numQ \in 1..MAX_QUESTIONS)
                        => (~last'.ok /\ sessions'[p] = sessions[p])
                 /\ last'.ok => sessions'[p].numQuestions \in 1..MAX_QUESTIONS]_vars

\* C14: whatever requests and callbacks a run has seen, the contract holds the
\* refund of every active session, and a cancelQuiz call made by the participant
\* of an active session at a block time past startedAt + MAX_QUIZ_DURATION
\* succeeds: the session ends and the participant has the stake back.
C14_NoStuckSession ==
    [][\A p \in Players :
          /\ sessions'[p].active => balance'[Contract] >= ENTRY_FEE
          /\ (sessions'[p].active /\ now' > sessions'[p].startedAt + MAX_QUIZ_DURATION)
                 => cancelQuizAccepts(p)'
          /\ (last'.op = "cancelQuiz" /\ last'.who = p /\ sessions[p].active /\ Expired(p))
                 => /\ last'.ok
                    /\ ~sessions'[p].active
                    /\ ledger'[p].end = "cancelled"
                    /\ balance'[p] = balance[p] + ENTRY_FEE]_vars

\* a session was cancelled that had accepted one callback and had another
\* request whose callback was never accepted
C14_Witness ==
    /\ last.op = "cancelQuiz" /\ last.ok
    /\ ledger[last.who].end = "cancelled"
    /\ \E r, q \in FnIds :
           /\ sent[r].player = last.who /\ sent[r].consumed
           /\ sent[q].player = last.who /\ ~sent[q].consumed
           /\ sent[q].vrf = sent[r].vrf
           /\ functionsRequestToPlayer[q] = last.who

\* C15: whenever finishQuiz is called for an active session with all
\* NUM_QUESTIONS questions answered, stake s in custody and correctCount c, the
\* call succeeds, the participant receives exactly floor(s * c / NUM_QUESTIONS)
\* (the largest r with r * NUM_QUESTIONS <= s * c), the contract's holdings fall
\* by that amount so that s less the reward stays in custody, and the session is
\* removed; stake 100 with 7 correct pays 70 and leaves 30.
C15_ProportionalReward ==
    [][\A p \in Players :
          (last'.op = "finishQuiz" /\ last'.who = p /\ sessions[p].isActive
             /\ sessions[p].questionIndex = NUM_QUESTIONS)
              => LET s == sessions[p].stakeAmount
                     c == sessions[p].correctCount
                     paid == balance'[p] - balance[p]
                 IN
                 /\ last'.ok
                 /\ paid * NUM_QUESTIONS <= s * c
                 /\ s * c < (paid + 1) * NUM_QUESTIONS
                 /\ balance'[Contract] = s - paid
                 /\ balance'[Contract] >= 0
                 /\ (s = 100 /\ c = 7) => (paid = 70 /\ balance'[Contract] = 30)
                 /\ sessions'[p] = DefaultPlayerSession]_vars

\* finishQuiz paid 2 on a stake of 7 with 3 correct answers, 5 stay in custody
C15_Witness ==
    /\ last.op = "finishQuiz" /\ last.ok /\ last.arg = 2
    /\ balance[last.who] = 2 /\ balance[Contract] = 5
    /\ leaderboardScore[last.who] = 21

C17_IndexMonotone ==
    [][\A p \in Players :
          /\ (sessions[p].active /\ sessions'[p].active
                 /\ sessions'[p].vrfRequestId = sessions[p].vrfRequestId)
                 => sessions'[p].questionIndex >= sessions[p].questionIndex
          /\ sessions'[p].active
                 => /\ sessions'[p].questionIndex <= sessions'[p].numQuestions
                    /\ sessions'[p].correctCount <= sessions'[p].questionIndex]_vars

\* a callback was accepted that left an active session with
\* questionIndex = numQuestions
C17_Witness ==
    /\ last.op = "fulfillRequest" /\ last.ok
    /\ sessions[last.who].active
    /\ sessions[last.who].questionIndex = sessions[last.who].numQuestions

\* C18: the delivery of a callback for a request id for which fulfillRequest has
\* already accepted a callback leaves sessions, the request-to-player mapping,
\* the randomness bookkeeping, balances and allowances exactly as they were.
C18_ReplayNoOp ==
    [][\A r \in FnIds :
          (last'.op = "fulfillRequest" /\ last'.arg = r /\ sent[r].consumed)
              => /\ sessions' = sessions
                 /\ functionsRequestToPlayer' = functionsRequestToPlayer
                 /\ balance' = balance /\ allowance' = allowance
                 /\ requests' = requests /\ lastRequestId' = lastRequestId
                 /\ sent' = sent /\ ledger' = ledger]_vars

\* a callback was delivered again for a request already accepted for a session
\* that is still active
C18_Witness ==
    /\ last.op = "fulfillRequest" /\ last.arg \in FnIds
    /\ sent[last.arg].consumed
    /\ sessions[sent[last.arg].player].active
    /\ sessions[sent[last.arg].player].vrfRequestId = sent[last.arg].vrf
    /\ ~last.ok

\* r is not the current outstanding request of its player's session: its callback
\* was already accepted, so the contract no longer knows the id, or it is still
\* pending while the same session has sent a newer request
Stale(r) ==
    /\ sent[r].kind # "none"
    /\ \/ sent[r].consumed
       \/ LET p == sent[r].player IN
          /\ sessions[p].active
          /\ r \in Outstanding(p)
          /\ \E q \in Outstanding(p) : q > r

\* C19: the delivery of a callback for a stale request id succeeds (it does not
\* revert) and leaves every session as it was.
C19_StaleIgnored ==
    [][\A r \in FnIds :
          (last'.op = "fulfillRequest" /\ last'.arg = r /\ Stale(r))
              => (last'.ok /\ sessions' = sessions)]_vars

Vocabulary == { availableDomains[j] : j \in 1..Len(availableDomains) }

\* C21: a startQuiz call that names fewer than 5 topics, or a topic that is not
\* in the vocabulary, is rejected: no stake is pulled, no randomness request is
\* made, and sessions, balances and allowances are as before.
C21_StartQuizValidation ==
    [][\A p \in Players :
          (last'.op = "startQuiz" /\ last'.who = p
             /\ (Len(last'.arg) < 5
                   \/ \E i \in 1..Len(last'.arg) : last'.arg[i] \notin Vocabulary))
              => /\ ~last'.ok
                 /\ Untouched
                 /\ ledger' = ledger]_vars

\* a funded participant with no session called startQuiz with five topics, one
\* of them outside the vocabulary, and was rejected
C21_Witness ==
    /\ last.op = "startQuiz" /\ ~last.ok
    /\ Len(last.arg) >= 5
    /\ \E i \in 1..Len(last.arg) : last.arg[i] \notin Vocabulary
    /\ ~sessions[last.who].active
    /\ balance[last.who] >= ENTRY_FEE /\ allowance[last.who] >= ENTRY_FEE
    /\ lastRequestId = 0

C24_CrossParticipantIndependence ==
    [][\A a, b \in Players :
          (a # b /\ last'.who = a
             /\ last'.op \in {"startQuiz", "checkVRFAndGenerateQuiz", "submitAnswer",
                              "cancelQuiz", "fulfillRequest", "fulfillRandomWords"})
              => /\ sessions'[b] = sessions[b]
                 /\ balance'[b] = balance[b]
                 /\ allowance'[b] = allowance[b]
                 /\ ledger'[b] = ledger[b]
                 /\ \A r \in FnIds :
                        /\ (functionsRequestToPlayer'[r] = b) = (functionsRequestToPlayer[r] = b)
                        /\ sent[r].player = b => sent'[r] = sent[r]
                        /\ (sent'[r].player = b) = (sent[r].player = b)
                 /\ \A v \in VrfIds :
                        /\ requests[v].requester = b => requests'[v] = requests[v]
                        /\ (requests'[v].requester = b) = (requests[v].requester = b)]_vars

\* a callback was accepted for one participant while another participant has
\* an active session and a Functions request pending
C24_Witness ==
    /\ last.op = "fulfillRequest" /\ last.ok /\ last.who \in Players
    /\ \E b \in Players \ {last.who} :
           /\ sessions[b].active
           /\ \E r \in FnIds : functionsRequestToPlayer[r] = b

\* C25: a submitAnswer call made for an active session for which no
\* content-ready callback has been accepted yet (the session awaits its
\* randomness or its content) is rejected and sends no verify request.
C25_SubmitNeedsContent ==
    [][\A p \in Players :
          (last'.op = "submitAnswer" /\ last'.who = p /\ sessions[p].active
             /\ ~ContentAccepted(p))
              => (~last'.ok /\ sent' = sent
                  /\ functionsRequestToPlayer' = functionsRequestToPlayer)]_vars

\* C26: a submitAnswer call whose selected option is neither an option index
\* 0..3 nor the sentinel 255, or which is made for an active session after
\* startedAt + MAX_QUIZ_DURATION, is rejected: no verify request is sent and
\* the contract's storage, the token and the accounts are as before.
C26_SubmitValidated ==
    [][\A p \in Players :
          (last'.op = "submitAnswer" /\ last'.who = p
             /\ \/ last'.arg \notin (0..3) \cup {255}
                \/ (sessions[p].active /\ Expired(p)))
              => (~last'.ok /\ Untouched /\ ledger' = ledger)]_vars

\* option 4 was submitted, and rejected, for a session that is active, within
\* its time and has its content
C26_Witness ==
    /\ last.op = "submitAnswer" /\ ~last.ok /\ last.arg = 4
    /\ sessions[last.who].active /\ ~Expired(last.who)
    /\ ContentAccepted(last.who)

\* C27: once a content-ready callback has been accepted for a session, no
\* operation and no callback changes the session's quizId for as long as that
\* session lasts.
C27_QuizIdBoundOnce ==
    [][\A p \in Players :
          (sessions[p].active /\ ContentAccepted(p)
             /\ sessions'[p].active
             /\ sessions'[p].vrfRequestId = sessions[p].vrfRequestId)
              => sessions'[p].quizId = sessions[p].quizId]_vars

\* C28: a fulfillRandomWords delivery for a request that is already fulfilled
\* leaves the request's stored status and random words as they were, so the
\* random word read for a request does not change once it is fulfilled.
C28_RedeliveryNoOp ==
    [][\A v \in VrfIds :
          (last'.op = "fulfillRandomWords" /\ last'.arg = v /\ requests[v].fulfilled)
              => requests'[v] = requests[v]]_vars

\* C29: a generate request is sent for a participant only while that
\* participant's session is active and the randomness request recorded in it
\* (vrfRequestId, requested for that participant) is fulfilled; a
\* checkVRFAndGenerateQuiz call that names another request id, an unfulfilled
\* request or a request made for another requester is rejected and sends
\* nothing.
C29_GenerateAfterRandomness ==
    [][/\ \A p \in Players, r \in FnIds :
              (sent[r].kind = "none" /\ sent'[r].kind = "generate" /\ sent'[r].player = p)
                  => /\ last'.op = "checkVRFAndGenerateQuiz" /\ last'.who = p
                     /\ sessions[p].active
                     /\ sessions[p].vrfRequestId \in VrfIds
                     /\ sent'[r].vrf = sessions[p].vrfRequestId
                     /\ getRequestStatus(sessions[p].vrfRequestId).ok
                     /\ getRequestStatus(sessions[p].vrfRequestId).fulfilled
                     /\ getRequestStatus(sessions[p].vrfRequestId).requester = p
       /\ \A p \in Players :
              (last'.op = "checkVRFAndGenerateQuiz" /\ last'.who = p
                 /\ \/ last'.arg # sessions[p].vrfRequestId
                    \/ ~requests[last'.arg].fulfilled
                    \/ requests[last'.arg].requester # p)
                  => (~last'.ok /\ Untouched)]_vars

\* a participant with an active session called checkVRFAndGenerateQuiz with
\* the session's own request id before the request was fulfilled, and was
\* rejected; another request, made for the other participant, is fulfilled
C29_Witness ==
    /\ last.op = "checkVRFAndGenerateQuiz" /\ ~last.ok
    /\ sessions[last.who].active
    /\ last.arg = sessions[last.who].vrfRequestId
    /\ requests[last.arg].exists /\ ~requests[last.arg].fulfilled
    /\ \E v \in VrfIds : requests[v].fulfilled /\ requests[v].requester # last.who

\* C30: getRequestStatus(id) fails exactly for the ids requestRandomWords has
\* not returned; a request reads fulfilled = FALSE from the call that made it
\* until a fulfillRandomWords delivery for its id is accepted, and reads
\* fulfilled = TRUE with the requester it was made for from then on; a
\* fulfillRandomWords delivery for an unknown id is rejected and changes
\* nothing.
C30_RequestStatus ==
    [][\A v \in VrfIds :
          /\ getRequestStatus(v).ok <=> v <= lastRequestId
          /\ getRequestStatus(v)'.ok <=> v <= lastRequestId'
          /\ (~getRequestStatus(v).ok /\ getRequestStatus(v)'.ok)
                 => /\ last'.op \in {"requestRandomWords", "startQuiz"} /\ last'.ok
                    /\ ~getRequestStatus(v)'.fulfilled
                    /\ getRequestStatus(v)'.requester = last'.who
          /\ getRequestStatus(v).ok
                 => /\ getRequestStatus(v)'.ok
                    /\ getRequestStatus(v)'.requester = getRequestStatus(v).requester
                    /\ getRequestStatus(v).fulfilled => getRequestStatus(v)'.fulfilled
                    /\ (~getRequestStatus(v).fulfilled /\ getRequestStatus(v)'.fulfilled)
                           => (last'.op = "fulfillRandomWords" /\ last'.ok
                               /\ last'.arg = v)
          /\ (last'.op = "fulfillRandomWords" /\ last'.arg = v)
                 => IF getRequestStatus(v).ok
                    THEN last'.ok /\ getRequestStatus(v)'.fulfilled
                    ELSE ~last'.ok /\ Untouched]_vars

\* request 1, made for a participant, is fulfilled; request 2 was never made,
\* and a delivery for it has just been rejected
C30_Witness ==
    /\ getRequestStatus(1).ok /\ getRequestStatus(1).fulfilled
    /\ getRequestStatus(1).requester \in Players
    /\ ~getRequestStatus(2).ok
    /\ last.op = "fulfillRandomWords" /\ last.arg = 2 /\ ~last.ok

\* C31: finishQuiz is rejected, and changes nothing, unless the caller has an
\* active session with questionIndex = NUM_QUESTIONS; an accepted finishQuiz
\* removes the session, and from then on a finishQuiz or a cancelQuiz by the
\* same participant is rejected and moves no tokens, so a session is paid at
\* most once.
C31_FinishOnce ==
    [][\A p \in Players :
          /\ (last'.op = "finishQuiz" /\ last'.who = p
                /\ ~(sessions[p].isActive /\ sessions[p].questionIndex = NUM_QUESTIONS))
                 => (~last'.ok /\ Untouched /\ ledger' = ledger
                     /\ leaderboardScore' = leaderboardScore)
          /\ (last'.op = "finishQuiz" /\ last'.who = p /\ last'.ok)
                 => (sessions'[p] = DefaultPlayerSession /\ ledger'[p].end = "settled")
          /\ (ledger[p].end = "settled" /\ last'.who = p
                /\ last'.op \in {"finishQuiz", "cancelQuiz"})
                 => (~last'.ok /\ balance' = balance /\ ledger' = ledger)
          /\ ledger'[p].transfers <= 1]_vars

\* a session was finished and paid, the total timeout has passed since, and a
\* cancelQuiz by the same participant has just been rejected
C31_Witness ==
    /\ last.op = "cancelQuiz" /\ ~last.ok
    /\ ledger[last.who].end = "settled" /\ ledger[last.who].transfers = 1
    /\ balance[last.who] > 0 /\ balance[last.who] = ledger[last.who].out
    /\ now > 1 + QUESTION_TIMEOUT * NUM_QUESTIONS

\* C32: in the contract with finishQuiz, a cancelQuiz call for an active
\* session made before QUESTION_TIMEOUT * NUM_QUESTIONS seconds have passed
\* since the session was started is rejected and changes nothing; so is one
\* made right after startQuiz, before the quiz content is delivered.
C32_CancelAfterTotalTimeout ==
    [][\A p \in Players :
          (last'.op = "cancelQuiz" /\ last'.who = p /\ sessions[p].isActive
             /\ now <= ledger[p].startedAt + QUESTION_TIMEOUT * NUM_QUESTIONS)
              => (~last'.ok /\ Untouched /\ ledger' = ledger)]_vars

\* C33: the delivery of a callback for a Functions request that was sent
\* during an earlier session of its participant, ended since by cancelQuiz,
\* leaves quizId, numQuestions, questionIndex and correctCount of the session
\* the participant has now as they were.
C33_OldCallbackIgnored ==
    [][\A r \in FnIds :
          (last'.op = "fulfillRequest" /\ last'.arg = r /\ sent[r].kind # "none"
             /\ sessions[sent[r].player].active
             /\ sent[r].vrf # sessions[sent[r].player].vrfRequestId)
              => LET p == sent[r].player IN
                 /\ sessions'[p].quizId = sessions[p].quizId
                 /\ sessions'[p].numQuestions = sessions[p].numQuestions
                 /\ sessions'[p].questionIndex = sessions[p].questionIndex
                 /\ sessions'[p].correctCount = sessions[p].correctCount]_vars

\* C34: for an active session exactly one of the two time guards holds at any
\* block time: a submitAnswer call with a valid option is accepted exactly
\* while time <= startedAt + MAX_QUIZ_DURATION and a cancelQuiz call exactly
\* when time > startedAt + MAX_QUIZ_DURATION, so no state accepts both; and
\* once the session has expired it stays expired for as long as it lasts.
C34_AnswerXorCancel ==
    [][\A p \in Players :
          sessions[p].active
              => /\ submitAnswerAccepts(p, 1) # cancelQuizAccepts(p)
                 /\ (last'.op = "submitAnswer" /\ last'.who = p
                       /\ last'.arg \in (0..3) \cup {255})
                        => (last'.ok = ~Expired(p))
                 /\ (last'.op = "cancelQuiz" /\ last'.who = p)
                        => (last'.ok = Expired(p))
                 /\ (Expired(p) /\ sessions'[p].active
                       /\ sessions'[p].vrfRequestId = sessions[p].vrfRequestId)
                        => (now' > sessions'[p].startedAt + MAX_QUIZ_DURATION)]_vars

\* one second past the limit of a session that has its content, an answer
\* with a valid option has just been rejected
C34_Witness ==
    /\ last.op = "submitAnswer" /\ ~last.ok /\ last.arg = 1
    /\ sessions[last.who].active /\ ContentAccepted(last.who)
    /\ now = sessions[last.who].startedAt + MAX_QUIZ_DURATION + 1

\* C35: the correct_count stored for a quiz never exceeds the number of its
\* questions, and a /verifyAnswer request for a question of the quiz that was
\* verified before leaves the stored correct_count as it was.
C35_ScoreBounded ==
    [][/\ \A q \in QuizIds :
              Quizzes'[q].exists => Quizzes'[q].correct_count <= Len(Quizzes'[q].questions)
       /\ \A h \in Handlers :
              (handlers[h].pc = "update" /\ handlers'[h].pc = "idle"
                 /\ handlers[h].questionId \in served.verified)
                  => Quizzes'[handlers[h].quizId].correct_count
                         = Quizzes[handlers[h].quizId].correct_count]_vars

\* C36: whenever no /verifyAnswer request is in progress, the stored
\* correct_count of the quiz is the number of requests the server answered
\* with isCorrect = true; two requests handled concurrently add to the count
\* the number of them whose answer was correct.
C36_NoLostUpdate ==
    (\A h \in Handlers : handlers[h].pc = "idle")
        => \A q \in QuizIds : Quizzes[q].exists => Quizzes[q].correct_count = served.correct

\* C37: when /verifyAnswer has processed the last question of a quiz, the
\* quiz's completed_at is not null, whether the answer was correct or not; a
\* request for an earlier question leaves completed_at as it was.
C37_CompletionMarked ==
    [][\A h \in Handlers :
          (handlers[h].pc = "update" /\ handlers'[h].pc = "idle")
              => LET q == handlers[h].quizId IN
                 IF parseInt(SubSeq(handlers[h].questionId, 2, Len(handlers[h].questionId)))
                        = Len(Quizzes[q].questions)
                 THEN Quizzes'[q].completed_at # Null
                 ELSE Quizzes'[q].completed_at = Quizzes[q].completed_at]_vars

====
